---- MODULE Spec2Model ----
(***************************************************************************)
(* File integrity monitor (file_integrity_monitor.py).                     *)
(*                                                                         *)
(* One monitor process at a time works on a directory and on the snapshot  *)
(* file config_file.  The environment edits the directory between scans.   *)
(* A process is started from the command line (single scan or continuous   *)
(* monitoring), constructs a FileIntegrityMonitor (which loads the         *)
(* snapshot file), and calls monitor_directory once or in a loop.          *)
(* save_hashes is modelled at the granularity of the file system calls it  *)
(* makes (open for writing, which truncates; the writes of json.dump; the  *)
(* close), because abrupt termination and write errors can happen between  *)
(* them.                                                                   *)
(***************************************************************************)
EXTENDS Integers, Sequences, FiniteSets, TLC

\* ---------------------------------------------------------------- bounds
\* Number of monitor_directory calls explored in one behaviour.
MaxScans == 2
\* Number of edits the environment makes to the directory in one behaviour.
MaxEdits == 1

\* ----------------------------------------------------------------- paths
\* Files directly inside the monitored directory.
TopFiles == {"a", "b"}
\* Files inside a subdirectory of the monitored directory.
SubFiles == {"sub/y"}
DataPaths == TopFiles \cup SubFiles
\* The snapshot file (config_file), a key of the mappings when it lies
\* inside the monitored directory.
ConfigFile == "file_hashes.json"
\* The order in which os.walk visits the files, which is also the insertion
\* order of the dict current_hashes and the order json.dump writes the keys.
WalkOrder == <<"a", "b", "file_hashes.json", "sub/y">>

\* ------------------------------------------------------------ file system
\* A file of the directory: absent, or present with some content, readable
\* by the monitor or not.
NoFile == [present |-> FALSE, data |-> 0, readable |-> FALSE]
File(c, r) == [present |-> TRUE, data |-> c, readable |-> r]
\* The contents the environment gives a file.
Contents == {1, 2}

\* The empty dict {}.
EmptyMap == [p \in {} |-> 0]

\* ------------------------------------------------- serialized snapshot file
\* The text of the snapshot file is a sequence of tokens; json.dump writes
\* the opening brace, one "key": "value" pair per entry, the closing brace.
LBrace == [t |-> "lbrace", k |-> "", v |-> 0]
RBrace == [t |-> "rbrace", k |-> "", v |-> 0]
Pair(p, h) == [t |-> "pair", k |-> p, v |-> h]
\* Text that is no JSON at all.
Junk == [t |-> "junk", k |-> "", v |-> 0]
\* Bytes that are not valid text in the encoding open(..., 'r') decodes with.
BadByte == [t |-> "badbyte", k |-> "", v |-> 0]

NoDisk == [exists |-> FALSE, content |-> <<>>]
\* No file was renamed; Renamed(p, q): the file at path p is now at path q.
NoRename == [from |-> "", to |-> ""]
Renamed(p, q) == [from |-> p, to |-> q]
OnDisk(s) == [exists |-> TRUE, content |-> s]

VARIABLES
    fs,           \* DataPaths -> file: the content of the monitored directory
    root,         \* "dir", "missing" or "file": what the directory argument names
    cfgInRoot,    \* the snapshot file lies directly inside the monitored directory
    disk,         \* the snapshot file
    hashed,       \* the texts of the snapshot file that were hashed so far
    pc,           \* "down", "idle", "save_open", "save_write"
    mode,         \* "single" or "continuous"; "none" while no process runs
    recursive,    \* the -r flag of the command line
    file_hashes,  \* self.file_hashes
    pending,      \* the tokens json.dump has still to write
    prev,         \* self.file_hashes at the start of the last monitor_directory
    cur,          \* current_hashes of the last monitor_directory
    changes,      \* the records the last monitor_directory printed
    oldDisk,      \* the snapshot file as the last successful save or load left it
    outcome,      \* how the last monitor_directory ended
    loadRaised,   \* the last construction of a monitor ended in an exception
    settled,      \* "flat" or "deep": the last scan (non-recursive or recursive)
                  \* completed and the environment has edited nothing since;
                  \* "no" otherwise
    scans,        \* number of monitor_directory calls
    edits,        \* number of edits of the environment
    renamed       \* the rename made since the last completed scan, the only
                  \* edit since, until the next scan has compared

vars == <<fs, root, cfgInRoot, disk, hashed, pc, mode, recursive, file_hashes,
          pending, prev, cur, changes, oldDisk, outcome, loadRaised, settled,
          scans, edits, renamed>>

envVars == <<fs, root, cfgInRoot, edits>>
histVars == <<prev, cur, changes, oldDisk, outcome, scans>>

\* --------------------------------------------------------- Digest Engine
\* hashlib.sha256 of the content of a data file: an injective map of the
\* contents to digests (even numbers).
Sha256(c) == 2 * c

\* The position of text s in the texts hashed so far.
IndexOf(table, s) == CHOOSE i \in 1..Len(table) : table[i] = s
Interned(table, s) == \E i \in 1..Len(table) : table[i] = s
Intern(table, s) == IF Interned(table, s) THEN table ELSE Append(table, s)
\* hashlib.sha256 of a text of the snapshot file: distinct texts get
\* distinct digests (odd numbers), equal texts the same digest.
Sha256Text(table, s) == 2 * IndexOf(Intern(table, s), s) + 1

\* The value calculate_hash returns None as.
None == 0

\* calculate_hash(filepath): the digest, or None when open/read raises
\* IOError or PermissionError.
calculate_hash(p, files, snapshotFile, table) ==
    IF p = ConfigFile
    THEN Sha256Text(table, snapshotFile.content)
    ELSE IF files[p].readable THEN Sha256(files[p].data) ELSE None

\* --------------------------------------------------------- Snapshot Store
RECURSIVE DumpEntries(_, _)
DumpEntries(order, m) ==
    IF order = <<>> THEN <<>>
    ELSE IF Head(order) \in DOMAIN m
         THEN <<Pair(Head(order), m[Head(order)])>> \o DumpEntries(Tail(order), m)
         ELSE DumpEntries(Tail(order), m)

\* json.dump(self.file_hashes, f, indent=4): the text written for mapping m.
json_dump(m) == <<LBrace>> \o DumpEntries(WalkOrder, m) \o <<RBrace>>

\* f.read() raises UnicodeDecodeError.
Undecodable(s) == \E i \in 1..Len(s) : s[i].t = "badbyte"
\* The text is a JSON object; anything else raises json.JSONDecodeError.
WellFormed(s) ==
    /\ Len(s) >= 2
    /\ s[1].t = "lbrace"
    /\ s[Len(s)].t = "rbrace"
    /\ \A i \in 2..(Len(s) - 1) : s[i].t = "pair"
\* The dict json.load builds from a well-formed text (a repeated key keeps
\* its last value).
Decode(s) ==
    LET idx == 2..(Len(s) - 1)
        last(p) == CHOOSE i \in idx :
                       /\ s[i].k = p
                       /\ \A j \in idx : s[j].k = p => j <= i
    IN [p \in {s[i].k : i \in idx} |-> s[last(p)].v]

\* Variant: a text that is no JSON object is not rejected, the entries found
\* in it are kept.
load_hashes_KeepsEntries(snapshotFile, fh) ==
    LET s == snapshotFile.content
        at(p) == CHOOSE i \in 1..Len(s) : s[i].t = "pair" /\ s[i].k = p
    IN IF ~snapshotFile.exists
       THEN [raised |-> FALSE, file_hashes |-> fh]
       ELSE IF Undecodable(s)
       THEN [raised |-> TRUE, file_hashes |-> fh]
       ELSE [raised |-> FALSE,
             file_hashes |-> [p \in {s[i].k : i \in {j \in 1..Len(s) : s[j].t = "pair"}}
                                |-> s[at(p)].v]]

\* Variant: the result of json.load is not assigned to self.file_hashes.
load_hashes_Discards(snapshotFile, fh) ==
    [raised |-> snapshotFile.exists /\ Undecodable(snapshotFile.content),
     file_hashes |-> fh]

\* load_hashes, called with self.file_hashes = fh: the exception that
\* escapes it, if any, and self.file_hashes afterwards.
load_hashes(snapshotFile, fh) ==
    IF ~snapshotFile.exists
    THEN [raised |-> FALSE, file_hashes |-> fh]
    ELSE IF Undecodable(snapshotFile.content)
    THEN [raised |-> TRUE, file_hashes |-> fh]
    ELSE IF WellFormed(snapshotFile.content)
    THEN [raised |-> FALSE, file_hashes |-> Decode(snapshotFile.content)]
    ELSE [raised |-> FALSE, file_hashes |-> EmptyMap]

\* ----------------------------------------------------------- Tree Scanner
\* os.path.exists(directory)
path_exists(r) == r # "missing"

\* Variant: the break of the non-recursive scan is missing.
Visited_NoBreak(rec, r, files, inRoot, snapshotFile) ==
    IF r # "dir" THEN {}
    ELSE {p \in DataPaths : files[p].present}
         \cup (IF inRoot /\ snapshotFile.exists THEN {ConfigFile} ELSE {})

\* The files os.walk(directory) yields up to the break: none when the
\* argument is no directory (os.walk swallows the error of scandir).
Visited(rec, r, files, inRoot, snapshotFile) ==
    IF r # "dir" THEN {}
    ELSE {p \in TopFiles : files[p].present}
         \cup (IF inRoot /\ snapshotFile.exists THEN {ConfigFile} ELSE {})
         \cup (IF rec THEN {p \in SubFiles : files[p].present} ELSE {})

\* Variant: "if file_hash:" is missing, a file that cannot be read is
\* entered with None.
current_hashes_KeepNone(rec, r, files, inRoot, snapshotFile, table) ==
    [p \in Visited(rec, r, files, inRoot, snapshotFile)
        |-> calculate_hash(p, files, snapshotFile, table)]

\* current_hashes as monitor_directory builds it.
current_hashes(rec, r, files, inRoot, snapshotFile, table) ==
    LET h(p) == calculate_hash(p, files, snapshotFile, table)
    IN [p \in {q \in Visited(rec, r, files, inRoot, snapshotFile) : h(q) # None}
          |-> h(p)]

\* ---------------------------------------------------------- Diff Classifier
Record(kind, p) == [kind |-> kind, path |-> p]

\* Variant: the digests are not compared.
ModifiedFiles_NoCompare(stored, current) ==
    {p \in DOMAIN current : p \in DOMAIN stored}
\* "CHANGE DETECTED"
ModifiedFiles(stored, current) ==
    {p \in DOMAIN current : p \in DOMAIN stored /\ stored[p] # current[p]}
\* Variant: the else of line 72 is bound to the comparison of the digests,
\* not to the membership test.
AddedFiles_WrongElse(stored, current) ==
    {p \in DOMAIN current : p \notin DOMAIN stored \/ stored[p] = current[p]}
\* "NEW FILE ADDED"
AddedFiles(stored, current) ==
    {p \in DOMAIN current : p \notin DOMAIN stored}
\* Variant: the stored hashes are replaced before the deleted files are
\* looked for.
DeletedFiles_AfterUpdate(stored, current) ==
    {p \in DOMAIN current : p \notin DOMAIN current}
\* "FILE DELETED"
DeletedFiles(stored, current) ==
    {p \in DOMAIN stored : p \notin DOMAIN current}

\* Variant: a deleted path and an added path with the same digest are taken
\* for one file that moved and reported as one record for the new path.
compare_hashes_PairsRenames(stored, current) ==
    LET moved == {pq \in DeletedFiles(stored, current) \X AddedFiles(stored, current) :
                     stored[pq[1]] = current[pq[2]]}
    IN {Record("Modified", p) : p \in ModifiedFiles(stored, current)}
       \cup {Record("Modified", pq[2]) : pq \in moved}
       \cup {Record("Added", p) :
                p \in AddedFiles(stored, current) \ {pq[2] : pq \in moved}}
       \cup {Record("Deleted", p) :
                p \in DeletedFiles(stored, current) \ {pq[1] : pq \in moved}}
\* The records compare_hashes prints.
compare_hashes(stored, current) ==
    {Record("Modified", p) : p \in ModifiedFiles(stored, current)}
    \cup {Record("Added", p) : p \in AddedFiles(stored, current)}
    \cup {Record("Deleted", p) : p \in DeletedFiles(stored, current)}

\* ------------------------------------------------------------------ Init
\* The snapshot files a first process can find: none, text that is no JSON,
\* bytes that are no text, and the snapshot of an earlier run.
InitialSnapshots ==
    {NoDisk, OnDisk(<<Junk>>), OnDisk(<<BadByte>>),
     OnDisk(json_dump([p \in {"a"} |-> Sha256(1)]))}

Init ==
    /\ fs \in {f \in [DataPaths -> {NoFile, File(1, TRUE)}] :
                 \A p \in DataPaths \ {"b"} : f[p].present}
    /\ root = "dir"
    /\ cfgInRoot \in BOOLEAN
    /\ disk \in InitialSnapshots
    /\ hashed = <<>>
    /\ pc = "down"
    /\ mode = "none"
    /\ recursive = FALSE
    /\ file_hashes = EmptyMap
    /\ pending = <<>>
    /\ prev = EmptyMap
    /\ cur = EmptyMap
    /\ changes = {}
    /\ oldDisk = disk
    /\ outcome = "none"
    /\ loadRaised = FALSE
    /\ settled = "no"
    /\ scans = 0
    /\ edits = 0
    /\ renamed = NoRename

\* ------------------------------------------------------------ the monitor
\* Where a process is after monitor_directory returned: a single scan ends
\* the process, continuous_monitoring sleeps until the next scan.
AfterScan(m) == IF m = "single" THEN "down" ELSE "idle"

\* The recursive argument monitor_directory is called with: args.recursive
\* for a single scan; continuous_monitoring passes none, so the default.
RecursiveArg(m, r) == IF m = "single" THEN r ELSE TRUE

\* The command line of the process lives as long as the process.
Args(nextpc) ==
    /\ mode' = IF nextpc = "down" THEN "none" ELSE mode
    /\ recursive' = IF nextpc = "down" THEN FALSE ELSE recursive

\* __main__ up to the first scan: parse the arguments, construct the monitor
\* (__init__: file_hashes = {}, then load_hashes).  An exception of
\* load_hashes ends the process.  The new process has scanned and printed
\* nothing yet.
Start(m, r) ==
    /\ pc = "down"
    /\ scans < MaxScans
    /\ LET l == load_hashes(disk, EmptyMap)
       IN /\ loadRaised' = l.raised
          /\ file_hashes' = l.file_hashes
          /\ pc' = IF l.raised THEN "down" ELSE "idle"
    /\ mode' = IF pc' = "down" THEN "none" ELSE m
    /\ recursive' = IF pc' = "down" THEN FALSE ELSE r
    /\ prev' = EmptyMap
    /\ cur' = EmptyMap
    /\ changes' = {}
    /\ oldDisk' = disk
    /\ outcome' = "none"
    /\ pending' = <<>>
    /\ UNCHANGED <<envVars, disk, hashed, settled, scans, renamed>>

\* Variant: save_hashes is called only when a change was detected.
SavesSnapshot_OnlyOnChange(printed) == printed # {}
\* compare_hashes calls save_hashes whatever records it printed.
SavesSnapshot(printed) == TRUE

\* monitor_directory up to the call of save_hashes: the existence check, the
\* walk with calculate_hash per file, and compare_hashes up to
\* self.file_hashes = current_hashes.
MonitorDirectory ==
    /\ pc = "idle"
    /\ scans < MaxScans
    /\ scans' = scans + 1
    /\ prev' = file_hashes
    /\ oldDisk' = disk
    /\ IF ~path_exists(root)
       THEN /\ outcome' = "aborted"
            /\ cur' = EmptyMap
            /\ changes' = {}
            /\ pc' = AfterScan(mode)
            /\ UNCHANGED <<file_hashes, hashed>>
       ELSE LET rec == RecursiveArg(mode, recursive)
                current == current_hashes(rec, root, fs, cfgInRoot, disk, hashed)
            IN /\ hashed' = IF ConfigFile \in Visited(rec, root, fs, cfgInRoot, disk)
                            THEN Intern(hashed, disk.content)
                            ELSE hashed
               /\ cur' = current
               /\ changes' = compare_hashes(file_hashes, current)
               /\ file_hashes' = current
               /\ IF SavesSnapshot(changes')
                  THEN /\ outcome' = "saving"
                       /\ pc' = "save_open"
                  ELSE /\ outcome' = "completed"
                       /\ pc' = AfterScan(mode)
    /\ settled' = "no"
    /\ Args(pc')
    /\ UNCHANGED <<envVars, disk, pending, loadRaised, renamed>>

\* save_hashes: open(self.config_file, 'w').  It truncates the file, or
\* raises (permission denied); the exception ends the process, in
\* continuous_monitoring too, which catches KeyboardInterrupt only.
SaveOpen ==
    /\ pc = "save_open"
    /\ \/ /\ disk' = OnDisk(<<>>)
          /\ pending' = json_dump(file_hashes)
          /\ pc' = "save_write"
          /\ UNCHANGED outcome
       \/ /\ pc' = "down"
          /\ outcome' = "save_failed"
          /\ pending' = <<>>
          /\ UNCHANGED disk
    /\ Args(pc')
    /\ renamed' = NoRename
    /\ UNCHANGED <<envVars, hashed, file_hashes, prev, cur, changes, oldDisk,
                   loadRaised, settled, scans>>

\* save_hashes: one write of json.dump reaches the file, or raises (disk
\* full), which leaves the file as far as it was written.
SaveWrite ==
    /\ pc = "save_write"
    /\ pending # <<>>
    /\ \/ /\ disk' = OnDisk(Append(disk.content, Head(pending)))
          /\ pending' = Tail(pending)
          /\ UNCHANGED <<pc, outcome>>
       \/ /\ pc' = "down"
          /\ outcome' = "save_failed"
          /\ pending' = <<>>
          /\ UNCHANGED disk
    /\ Args(pc')
    /\ renamed' = NoRename
    /\ UNCHANGED <<envVars, hashed, file_hashes, prev, cur, changes, oldDisk,
                   loadRaised, settled, scans>>

\* save_hashes: the file is closed, compare_hashes and monitor_directory
\* return.
SaveClose ==
    /\ pc = "save_write"
    /\ pending = <<>>
    /\ outcome' = "completed"
    /\ pc' = AfterScan(mode)
    /\ oldDisk' = disk
    /\ settled' = IF RecursiveArg(mode, recursive) THEN "deep" ELSE "flat"
    /\ Args(pc')
    /\ renamed' = NoRename
    /\ UNCHANGED <<envVars, disk, hashed, file_hashes, pending, prev, cur,
                   changes, loadRaised, scans>>

\* Abrupt termination of the process (kill, power loss).
Crash ==
    /\ pc # "down"
    /\ pc' = "down"
    /\ outcome' = IF pc \in {"save_open", "save_write"} THEN "killed" ELSE outcome
    /\ pending' = <<>>
    /\ Args(pc')
    /\ renamed' = IF pc = "idle" THEN renamed ELSE NoRename
    /\ UNCHANGED <<envVars, disk, hashed, file_hashes, prev, cur, changes,
                   oldDisk, loadRaised, settled, scans>>

\* KeyboardInterrupt during time.sleep of continuous_monitoring.
Interrupt ==
    /\ pc = "idle"
    /\ mode = "continuous"
    /\ pc' = "down"
    /\ Args(pc')
    /\ UNCHANGED <<envVars, histVars, disk, hashed, file_hashes, pending,
                   loadRaised, settled, renamed>>

\* -------------------------------------------------------- the environment
\* The directory is edited only while no scan is running.  An edit made
\* while no process runs is the same edit made after the next process has
\* constructed its monitor, which does not read the directory.
Quiet == pc = "idle" /\ edits < MaxEdits /\ scans < MaxScans

monitorVars == <<disk, hashed, pc, mode, recursive, file_hashes, pending,
                 loadRaised>>

WriteFile(p, c) ==
    /\ Quiet
    /\ root = "dir"
    /\ fs[p] # File(c, TRUE)
    /\ fs' = [fs EXCEPT ![p] = File(c, TRUE)]
    /\ edits' = edits + 1
    /\ settled' = "no"
    /\ renamed' = NoRename
    /\ UNCHANGED <<root, cfgInRoot, monitorVars, histVars>>

DeleteFile(p) ==
    /\ Quiet
    /\ root = "dir"
    /\ fs[p].present
    /\ fs' = [fs EXCEPT ![p] = NoFile]
    /\ edits' = edits + 1
    /\ settled' = "no"
    /\ renamed' = NoRename
    /\ UNCHANGED <<root, cfgInRoot, monitorVars, histVars>>

\* The permissions of a file change: the monitor can no longer, or can
\* again, read it.
Chmod(p) ==
    /\ Quiet
    /\ root = "dir"
    /\ fs[p].present
    /\ fs' = [fs EXCEPT ![p].readable = ~fs[p].readable]
    /\ edits' = edits + 1
    /\ settled' = "no"
    /\ renamed' = NoRename
    /\ UNCHANGED <<root, cfgInRoot, monitorVars, histVars>>

RenameFile(p, q) ==
    /\ Quiet
    /\ root = "dir"
    /\ p # q
    /\ fs[p].present
    /\ ~fs[q].present
    /\ fs' = [fs EXCEPT ![p] = NoFile, ![q] = fs[p]]
    /\ edits' = edits + 1
    /\ settled' = "no"
    /\ renamed' = IF settled # "no" THEN Renamed(p, q) ELSE NoRename
    /\ UNCHANGED <<root, cfgInRoot, monitorVars, histVars>>

\* The directory argument comes to name a directory, nothing, or a regular
\* file.  The working directory, where the snapshot file lies, stays.
ChangeRoot(k) ==
    /\ Quiet
    /\ ~cfgInRoot
    /\ root # k
    /\ root' = k
    /\ edits' = edits + 1
    /\ settled' = "no"
    /\ renamed' = NoRename
    /\ UNCHANGED <<fs, cfgInRoot, monitorVars, histVars>>

Next ==
    \/ \E m \in {"single", "continuous"}, r \in BOOLEAN : Start(m, r)
    \/ MonitorDirectory
    \/ SaveOpen
    \/ SaveWrite
    \/ SaveClose
    \/ Crash
    \/ Interrupt
    \/ \E p \in DataPaths, c \in Contents : WriteFile(p, c)
    \/ \E p \in DataPaths : DeleteFile(p)
    \/ \E p \in DataPaths : Chmod(p)
    \/ \E p, q \in DataPaths : RenameFile(p, q)
    \/ \E k \in {"dir", "missing", "file"} : ChangeRoot(k)

Spec == Init /\ [][Next]_vars

\* ================================================================ claims
\* The last monitor_directory call built a ScanResult and compared it.
Compared == outcome \in {"saving", "completed", "save_failed", "killed"}

\* C1: for every path of the current ScanResult, a Modified record is
\* emitted iff the path is in the previous Snapshot with a different
\* digest, and an Added record iff the path is absent from the previous
\* Snapshot.
C1_ModifiedAndAdded ==
    Compared =>
        \A p \in DOMAIN cur :
            /\ Record("Modified", p) \in changes
                   <=> (p \in DOMAIN prev /\ prev[p] # cur[p])
            /\ Record("Added", p) \in changes <=> p \notin DOMAIN prev

\* A scan that found a modified file, a new file and an unchanged file.
C1_Witness ==
    /\ Compared
    /\ \E p, q, u \in DOMAIN cur :
          /\ Record("Modified", p) \in changes
          /\ Record("Added", q) \in changes
          /\ u \in DOMAIN prev /\ prev[u] = cur[u]

\* C2: a Deleted record is emitted for exactly the paths that are in the
\* previous Snapshot and absent from the current ScanResult.
C2_DeletedExactly ==
    Compared =>
        {r.path : r \in {x \in changes : x.kind = "Deleted"}}
            = DOMAIN prev \ DOMAIN cur

\* A scan that found one file deleted and another still there.
C2_Witness ==
    /\ Compared
    /\ \E p \in DOMAIN prev : Record("Deleted", p) \in changes
    /\ \E q \in DOMAIN prev : q \in DOMAIN cur

\* The step is a call of monitor_directory.
ScanStep == scans' = scans + 1
\* The depth the running process scans with.
Depth == IF RecursiveArg(mode, recursive) THEN "deep" ELSE "flat"

\* C3: a scan that follows a completed scan of the same directory, with no
\* change of the file system made in between, yields no ChangeRecord.
C3_NoChangesOnRescan ==
    [][(ScanStep /\ settled = Depth) => changes' = {}]_vars

\* C4: after a scan that reaches the diff step the Snapshot in memory is the
\* current ScanResult, and when the scan has completed the snapshot file
\* holds exactly the current ScanResult, also when no change was found.
C4_SnapshotIsScanResult ==
    /\ Compared => file_hashes = cur
    /\ outcome = "completed" =>
          /\ disk.exists
          /\ WellFormed(disk.content)
          /\ Decode(disk.content) = cur

\* A completed scan that found no change of a directory that is not empty.
C4_Witness ==
    /\ outcome = "completed"
    /\ changes = {}
    /\ cur # EmptyMap
    /\ disk = OnDisk(json_dump(cur))

\* C5: after a crash during save the snapshot file holds the complete old
\* text or the complete new text.
C5_CrashLeavesOldOrNew ==
    outcome = "killed" => (disk = oldDisk \/ disk = OnDisk(json_dump(cur)))

\* C6: a scan whose root does not exist as a directory emits no record,
\* leaves the Snapshot in memory unchanged and does not save.
C6_NoDirectoryAborts ==
    [][(ScanStep /\ root # "dir") =>
          /\ changes' = {}
          /\ file_hashes' = file_hashes
          /\ pc' \notin {"save_open", "save_write"}
          /\ disk' = disk]_vars

\* C7: a file that cannot be read is left out of the ScanResult and no
\* Deleted record is emitted for it.
C7_UnreadableNotDeleted ==
    pc = "save_open" =>
        \A p \in Visited(RecursiveArg(mode, recursive), root, fs, cfgInRoot, disk)
                 \cap DataPaths :
            ~fs[p].readable =>
                /\ p \notin DOMAIN cur
                /\ Record("Deleted", p) \notin changes

\* C8: a scan of a directory goes on to the diff and the save whatever files
\* cannot be read, and its ScanResult holds exactly the visited files that
\* can be read, each with its digest.
C8_ReadErrorSkipsFile ==
    [][(ScanStep /\ root = "dir") =>
          /\ pc' = "save_open"
          /\ DOMAIN cur' =
                {p \in Visited(Depth = "deep", root, fs, cfgInRoot, disk) :
                    p = ConfigFile \/ fs[p].readable}
          /\ \A p \in DOMAIN cur' \cap DataPaths : cur'[p] = Sha256(fs[p].data)]_vars

\* A single scan, run to its end, of a directory with a file that cannot be
\* read and a file that can.
C8_Witness ==
    /\ outcome = "completed"
    /\ pc = "down"
    /\ root = "dir"
    /\ \E p, q \in TopFiles :
          /\ fs[p].present /\ ~fs[p].readable /\ p \notin DOMAIN cur
          /\ fs[q].readable /\ q \in DOMAIN cur
          /\ Decode(disk.content) = cur

\* C9: load returns the empty Snapshot and does not fail when the snapshot
\* file does not exist or cannot be parsed.
C9_LoadNeverFails ==
    (~disk.exists \/ ~WellFormed(disk.content)) =>
        /\ ~loadRaised
        /\ (pc = "idle" /\ outcome = "none") => file_hashes = EmptyMap

\* C10: when the save fails the snapshot file still holds the previous text.
C10_FailedSaveKeepsOld ==
    outcome = "save_failed" => disk = oldDisk

\* C11: in repeated mode the process ends only by an interrupt from outside,
\* never because a file could not be read, the directory is missing or the
\* save of the snapshot failed.
C11_LoopSurvivesErrors ==
    [][(mode = "continuous" /\ pc' = "down") => outcome' # "save_failed"]_vars

\* The snapshot file cannot be read as a mapping.
Unparseable(f) == ~f.exists \/ ~WellFormed(f.content)

\* C12: the first scan of a monitor constructed on an absent or corrupt
\* snapshot file emits one Added record for every file of the ScanResult, no
\* other record, and the new Snapshot is the ScanResult.
\* (While the save has not begun, oldDisk is the file the scan started on; a
\* later scan of the same process starts on the file its last save wrote.)
C12_FirstScanAddsAll ==
    (pc = "save_open" /\ Unparseable(oldDisk)) =>
        /\ changes = {Record("Added", p) : p \in DOMAIN cur}
        /\ file_hashes = cur

\* The first scan after a corrupt snapshot file found two files.
C12_Witness ==
    /\ pc = "save_open"
    /\ prev = EmptyMap
    /\ oldDisk.exists /\ ~WellFormed(oldDisk.content)
    /\ {"a", "b"} \subseteq DOMAIN cur
    /\ changes = {Record("Added", p) : p \in DOMAIN cur}
    /\ file_hashes = cur

\* C13: a non-empty mapping that was saved is the mapping a load reads back,
\* by the monitor that saved it and by the monitor the next process
\* constructs.
C13_SaveLoadRoundTrip ==
    [][/\ (outcome = "saving" /\ outcome' = "completed" /\ cur # EmptyMap) =>
              load_hashes(disk', EmptyMap) = [raised |-> FALSE, file_hashes |-> cur]
       /\ (pc = "down" /\ outcome = "completed" /\ file_hashes # EmptyMap
              /\ outcome' = "none") =>
              (pc' = "idle" /\ file_hashes' = file_hashes)]_vars

\* A new monitor has loaded the two entries the last process saved.
C13_Witness ==
    /\ pc = "idle"
    /\ outcome = "none"
    /\ settled # "no"
    /\ Cardinality(DOMAIN file_hashes) >= 2
    /\ disk = OnDisk(json_dump(file_hashes))

\* C14: the ScanResult of a non-recursive scan holds no file of a
\* subdirectory.
C14_NonRecursiveStaysOnTop ==
    (pc \in {"save_open", "save_write"} /\ mode = "single" /\ ~recursive) =>
        DOMAIN cur \cap SubFiles = {}

\* A non-recursive scan of a directory with a readable file in a
\* subdirectory and a file of its own.
C14_Witness ==
    /\ pc = "save_open"
    /\ mode = "single"
    /\ ~recursive
    /\ \E p \in SubFiles : fs[p].readable /\ p \notin DOMAIN cur
    /\ \E q \in TopFiles : q \in DOMAIN cur

\* C15: a path that is in the previous Snapshot and in the current
\* ScanResult with the same digest produces no ChangeRecord.
C15_EqualDigestNoRecord ==
    Compared =>
        \A p \in DOMAIN prev \cap DOMAIN cur :
            prev[p] = cur[p] => \A r \in changes : r.path # p

\* A scan that found an unchanged file next to a change.
C15_Witness ==
    /\ Compared
    /\ changes # {}
    /\ \E p \in DOMAIN prev \cap DOMAIN cur : prev[p] = cur[p]

\* C16: a file that was recorded by a completed scan and then renamed,
\* content unchanged and nothing else edited, surfaces in the next scan that
\* reads it as exactly a Deleted record for the old path and an Added record
\* for the new path; no Modified record is emitted for either path.
C16_RenameIsDeletePlusAdd ==
    (pc = "save_open" /\ renamed # NoRename
        /\ renamed.from \in DOMAIN prev /\ renamed.to \in DOMAIN cur) =>
        /\ cur[renamed.to] = prev[renamed.from]
        /\ {r \in changes : r.path \in {renamed.from, renamed.to}}
               = {Record("Deleted", renamed.from), Record("Added", renamed.to)}

\* The scan after file a was renamed to b has compared.
C16_Witness ==
    /\ pc = "save_open"
    /\ renamed = Renamed("a", "b")
    /\ "a" \in DOMAIN prev
    /\ "b" \in DOMAIN cur
    /\ Record("Deleted", "a") \in changes
    /\ Record("Added", "b") \in changes

\* C17: every scan of continuous monitoring is made with the recursive flag
\* of the command line: its ScanResult is the one monitor_directory builds
\* with that flag.
C17_LoopUsesRecursiveFlag ==
    (pc = "save_open" /\ mode = "continuous") =>
        cur = current_hashes(recursive, root, fs, cfgInRoot, disk, hashed)

\* C18: with the snapshot file inside the scanned directory, a scan that
\* follows a completed scan with nothing edited in between emits no record
\* for the snapshot file.
C18_OwnSaveIsNoChange ==
    [][(ScanStep /\ cfgInRoot /\ settled = Depth) =>
          \A r \in changes' : r.path # ConfigFile]_vars

\* A monitor exists and is not inside monitor_directory: it was constructed,
\* or its last call has returned or raised.
AtRest ==
    \/ pc = "idle"
    \/ pc = "down" /\ outcome \in {"aborted", "completed", "save_failed"}

\* C19: whenever no scan is in progress, file_hashes is the mapping
\* load_hashes would read from the snapshot file.
C19_MemoryIsDisk ==
    AtRest => load_hashes(disk, EmptyMap)
                  = [raised |-> FALSE, file_hashes |-> file_hashes]
====
